---- MODULE Spec2Model ----
(***************************************************************************)
(* GitHubDocServer (src/index.js): the tool dispatcher, the six handlers    *)
(* and the HTML normalization of getMediumArticle.                          *)
(*                                                                          *)
(* Strings the code processes character by character (HTML, file paths)     *)
(* are sequences of one-character strings.  Texts the code builds from      *)
(* template literals are sequences of pieces; the string they stand for is  *)
(* the concatenation of the pieces.                                         *)
(***************************************************************************)
EXTENDS Integers, Sequences, FiniteSets, TLC

\* Character classes of the JavaScript regular expressions
UpperChars == <<"A","B","C","D","E","F","G","H","I","J","K","L","M",
                "N","O","P","Q","R","S","T","U","V","W","X","Y","Z">>

LowerChars == <<"a","b","c","d","e","f","g","h","i","j","k","l","m",
                "n","o","p","q","r","s","t","u","v","w","x","y","z">>

DigitChars == {"0","1","2","3","4","5","6","7","8","9"}

\* String.prototype.toLowerCase on one character
LowerOf == [c \in {UpperChars[i] : i \in 1..26} |->
              LowerChars[CHOOSE i \in 1..26 : UpperChars[i] = c]]

LowerChar(c) == IF c \in DOMAIN LowerOf THEN LowerOf[c] ELSE c

\* String.prototype.toLowerCase
ToLowerCase(s) == [i \in 1..Len(s) |-> LowerChar(s[i])]

\* the character U+0060, which a TLA+ string cannot hold
Backtick == "BACKTICK"

\* \s of a regular expression, and the characters String.prototype.trim removes
IsSpace(c) == c \in {" ", "\n", "\t", "\r"}

\* the characters '.' does not match
IsLineTerminator(c) == c \in {"\n", "\r"}

\* \w of a regular expression
WordChars == {UpperChars[i] : i \in 1..26} \cup {LowerChars[i] : i \in 1..26}
               \cup DigitChars \cup {"_"}

IsWordChar(c) == c \in WordChars

\* the literal lit matches s at position i
StartsAt(s, i, lit) ==
  /\ i >= 1
  /\ i + Len(lit) - 1 <= Len(s)
  /\ \A k \in 1..Len(lit) : s[i + k - 1] = lit[k]

\* the literal lit matches s at position i under the i flag
StartsAtCI(s, i, lit) ==
  /\ i >= 1
  /\ i + Len(lit) - 1 <= Len(s)
  /\ \A k \in 1..Len(lit) : LowerChar(s[i + k - 1]) = LowerChar(lit[k])

\* s[a..b], empty when b < a
Slice(s, a, b) == IF b < a THEN <<>> ELSE SubSeq(s, a, b)

\* the least element of a set of positions, 0 when there is none
MinOrZero(S) == IF S = {} THEN 0 ELSE CHOOSE x \in S : \A y \in S : x <= y

\* the greatest element of a set of positions, 0 when there is none
MaxOrZero(S) == IF S = {} THEN 0 ELSE CHOOSE x \in S : \A y \in S : x >= y

\* position of the first c at or after i, 0 when there is none
FirstChar(s, i, c) == MinOrZero({k \in i..Len(s) : s[k] = c})

\* the concatenation of q[lo], ..., q[hi]
RECURSIVE Concat(_, _, _)
Concat(q, lo, hi) ==
  IF lo > hi THEN <<>>
  ELSE IF lo = hi THEN q[lo]
  ELSE LET mid == (lo + hi) \div 2
       IN  Concat(q, lo, mid) \o Concat(q, mid + 1, hi)

\* the elements of a set of positions in increasing order
Ascending(S) ==
  [m \in 1..Cardinality(S) |-> CHOOSE x \in S : Cardinality({y \in S : y < x}) = m - 1]

\* a function on 1..n written out as a tuple
Tabulated(f) == SubSeq(f, 1, Len(f))

\* String.prototype.replace with a g-flagged regular expression: scan from
\* the left; the first position at or after the scan position where the
\* pattern matches is replaced and the scan goes on after the match; what
\* lies between two matches is kept.  ends[i] is the position after the
\* match starting at i, 0 when there is none; repl[i] is its replacement.
\* The scan positions are found by doubling: Scan[j] holds the position
\* reached 2^j matches later and the positions reached in fewer than 2^j
\* matches; position Len(s) + 2 stands for the end of the scan.
ReplaceAll(s, ends, repl) ==
  LET n     == Len(s)
      stop  == n + 2
      cands == {i \in 1..n : ends[i] # 0}
      first == Tabulated([p \in 1..stop |-> MinOrZero({k \in cands : k >= p})])
      step  == Tabulated([p \in 1..stop |-> IF first[p] = 0 THEN stop ELSE ends[first[p]]])
      Scan[j \in 0..(n + 1)] ==
        IF j = 0 THEN <<step, {1}>>
        ELSE LET prev == Scan[j - 1]
                 jump == prev[1]
                 seen == prev[2]
             IN  <<Tabulated([p \in 1..stop |-> jump[jump[p]]]),
                   seen \cup {jump[p] : p \in seen}>>
      rounds == CHOOSE j \in 0..(n + 1) : /\ stop \in Scan[j][2]
                                          /\ \A k \in 0..(j - 1) : stop \notin Scan[k][2]
      taken == Ascending({first[p] : p \in Scan[rounds][2]} \ {0})
      from(m) == IF m = 1 THEN 1 ELSE ends[taken[m - 1]]
      parts == [m \in 1..(Len(taken) + 1) |->
                 IF m > Len(taken) THEN Slice(s, from(m), n)
                 ELSE Slice(s, from(m), taken[m] - 1) \o repl[taken[m]]]
  IN  IF s = <<>> \/ cands = {} THEN s ELSE Concat(parts, 1, Len(taken) + 1)

\* html.replace(pattern, '') : every match is removed
RemoveAll(s, ends) == ReplaceAll(s, ends, [i \in 1..Len(s) |-> <<>>])

\* /<script\b[^<]*(?:(?!<\/script>)<[^<]*)*<\/script>/gi and its <style>
\* twin: from "<name" at a word boundary to the first "</name>" after it.
BlockEnd(s, i, nm) ==
  LET open  == <<"<">> \o nm
      close == <<"<", "/">> \o nm \o <<">">>
      a     == i + Len(open)
  IN  IF /\ s[i] = "<"
         /\ StartsAtCI(s, i, open)
         /\ (a > Len(s) \/ ~IsWordChar(s[a]))
        THEN LET j == MinOrZero({k \in a..Len(s) : StartsAtCI(s, k, close)})
             IN  IF j = 0 THEN 0 ELSE j + Len(close)
        ELSE 0

ScriptName  == <<"s","c","r","i","p","t">>
StyleName   == <<"s","t","y","l","e">>
ArticleName == <<"a","r","t","i","c","l","e">>

StripScripts(s) == RemoveAll(s, [i \in 1..Len(s) |-> BlockEnd(s, i, ScriptName)])
StripStyles(s)  == RemoveAll(s, [i \in 1..Len(s) |-> BlockEnd(s, i, StyleName)])

\* A pattern <name[^>]*>(.*?)<\/name> : the opening tag runs to the first
\* '>', the lazy group to the first closing tag with no line terminator
\* before it.  names is the set of tag names the pattern accepts (h[1-6]
\* accepts six, and the closing level need not equal the opening one).
\* PairMatch is <<g, j, e>>: the '>' of the opening tag, the start of the
\* closing tag, the position after it; <<0, 0, 0>> when there is no match.
NoMatch == <<0, 0, 0>>

PairClose(s, g, names, dotAll) ==
  LET stop == IF dotAll THEN 0
              ELSE MinOrZero({k \in (g + 1)..Len(s) : IsLineTerminator(s[k])})
      last == IF stop = 0 THEN Len(s) ELSE stop - 1
  IN  MinOrZero({k \in (g + 1)..last :
                   /\ s[k] = "<"
                   /\ \E nm \in names : StartsAtCI(s, k, <<"<", "/">> \o nm \o <<">">>)})

PairMatch(s, i, names, dotAll) ==
  IF s[i] = "<" /\ \E nm \in names : StartsAtCI(s, i, <<"<">> \o nm)
    THEN LET len == Len(CHOOSE nm \in names : StartsAtCI(s, i, <<"<">> \o nm))
             g   == FirstChar(s, i + 1 + len, ">")
         IN  IF g = 0 THEN NoMatch
             ELSE LET j == PairClose(s, g, names, dotAll)
                  IN  IF j = 0 THEN NoMatch ELSE <<g, j, j + len + 3>>
    ELSE NoMatch

\* html.replace(/<name[^>]*>(.*?)<\/name>/gi, pre $1 post)
PairRewrite(s, names, pre, post) ==
  LET m == [i \in 1..Len(s) |-> PairMatch(s, i, names, FALSE)]
  IN  ReplaceAll(s, [i \in 1..Len(s) |-> m[i][3]],
                 [i \in 1..Len(s) |-> pre \o Slice(s, m[i][1] + 1, m[i][2] - 1) \o post])

HeadingNames == {<<"h", d>> : d \in {"1","2","3","4","5","6"}}

\* html.match(/<article[^>]*>([\s\S]*?)<\/article>/i): group 1 of the first match
ExtractArticle(s) ==
  LET starts == {i \in 1..Len(s) : PairMatch(s, i, {ArticleName}, TRUE)[3] # 0}
  IN  IF starts = {} THEN s
      ELSE LET m == PairMatch(s, MinOrZero(starts), {ArticleName}, TRUE)
           IN  Slice(s, m[1] + 1, m[2] - 1)

\* /<a[^>]*href="([^"]*)"[^>]*>(.*?)<\/a>/gi : the greedy [^>]* prefers the
\* last href=" of the opening tag for which the rest matches.  AnchorMatch
\* is <<h, q, g, j, e>>: start of href=", closing quote, '>' of the opening
\* tag, start of </a>, position after it.
HrefLit == <<"h","r","e","f","=","\"">>

AnchorRest(s, h) ==
  LET q == FirstChar(s, h + Len(HrefLit), "\"")
      g == IF q = 0 THEN 0 ELSE FirstChar(s, q + 1, ">")
      j == IF g = 0 THEN 0 ELSE PairClose(s, g, {<<"a">>}, FALSE)
  IN  IF j = 0 THEN <<0, 0, 0, 0, 0>> ELSE <<h, q, g, j, j + 4>>

AnchorMatch(s, i) ==
  IF s[i] = "<" /\ StartsAtCI(s, i, <<"<", "a">>)
    THEN LET gt   == FirstChar(s, i + 2, ">")
             lim  == IF gt = 0 THEN Len(s) ELSE gt - 1
             cand == {h \in (i + 2)..lim :
                        /\ h + Len(HrefLit) - 1 <= lim
                        /\ StartsAtCI(s, h, HrefLit)
                        /\ AnchorRest(s, h)[5] # 0}
         IN  IF cand = {} THEN <<0, 0, 0, 0, 0>> ELSE AnchorRest(s, MaxOrZero(cand))
    ELSE <<0, 0, 0, 0, 0>>

\* html.replace(/<a[^>]*href="([^"]*)"[^>]*>(.*?)<\/a>/gi, '[$2]($1)')
RewriteAnchors(s) ==
  LET m == [i \in 1..Len(s) |-> AnchorMatch(s, i)]
  IN  ReplaceAll(s, [i \in 1..Len(s) |-> m[i][5]],
                 [i \in 1..Len(s) |->
                    <<"[">> \o Slice(s, m[i][3] + 1, m[i][4] - 1) \o <<"]", "(">>
                      \o Slice(s, m[i][1] + Len(HrefLit), m[i][2] - 1) \o <<")">>])

\* /<[^>]+>/g : '<', at least one character that is not '>', then the first '>'
TagEnd(s, i) ==
  IF s[i] = "<" /\ i + 1 <= Len(s) /\ s[i + 1] # ">"
    THEN LET g == FirstChar(s, i + 2, ">") IN IF g = 0 THEN 0 ELSE g + 1
    ELSE 0

\* html.replace(/<[^>]+>/g, '')
StripTags(s) == RemoveAll(s, [i \in 1..Len(s) |-> TagEnd(s, i)])

\* html.replace(/lit/g, rep) for a literal pattern
ReplaceLit(s, lit, rep) ==
  ReplaceAll(s,
             [i \in 1..Len(s) |->
                IF s[i] = lit[1] /\ StartsAt(s, i, lit) THEN i + Len(lit) ELSE 0],
             [i \in 1..Len(s) |-> rep])

\* /\n\s*\n\s*\n/g : a newline, then white space holding two more newlines;
\* both \s* are greedy, so the match ends at the last newline that white
\* space alone connects to the first.
BlankRunEnd(s, i) ==
  IF s[i] = "\n"
    THEN LET ends == {k \in (i + 2)..Len(s) :
                        /\ s[k] = "\n"
                        /\ \A m \in i..k : IsSpace(s[m])
                        /\ \E m \in (i + 1)..(k - 1) : s[m] = "\n"}
         IN  IF ends = {} THEN 0 ELSE MaxOrZero(ends) + 1
    ELSE 0

\* a clean-up that leaves blank lines alone
BlankLinesKept(s) == s

\* html.replace(/\n\s*\n\s*\n/g, '\n\n')
CollapseBlankLines(s) ==
  ReplaceAll(s, [i \in 1..Len(s) |-> BlankRunEnd(s, i)],
             [i \in 1..Len(s) |-> <<"\n", "\n">>])

\* a clean-up that does not trim
Untrimmed(s) == s

\* String.prototype.trim
Trim(s) ==
  LET keep == {k \in 1..Len(s) : ~IsSpace(s[k])}
  IN  IF keep = {} THEN <<>> ELSE SubSeq(s, MinOrZero(keep), MaxOrZero(keep))

\* the k-th statement of the conversion applied to html, in the order of
\* the code
Statement(k, html) ==
  CASE k = 1  -> StripScripts(html)
    [] k = 2  -> StripStyles(html)
    [] k = 3  -> ExtractArticle(html)
    [] k = 4  -> PairRewrite(html, HeadingNames, <<"\n", "#", " ">>, <<"\n">>)
    [] k = 5  -> PairRewrite(html, {<<"p">>}, <<"\n">>, <<"\n">>)
    [] k = 6  -> PairRewrite(html, {<<"s","t","r","o","n","g">>}, <<"*", "*">>, <<"*", "*">>)
    [] k = 7  -> PairRewrite(html, {<<"e","m">>}, <<"*">>, <<"*">>)
    [] k = 8  -> PairRewrite(html, {<<"c","o","d","e">>}, <<Backtick>>, <<Backtick>>)
    [] k = 9  -> PairRewrite(html, {<<"p","r","e">>},
                             <<"\n", Backtick, Backtick, Backtick, "\n">>,
                             <<"\n", Backtick, Backtick, Backtick, "\n">>)
    [] k = 10 -> RewriteAnchors(html)
    [] k = 11 -> StripTags(html)
    [] k = 12 -> ReplaceLit(html, <<"&","n","b","s","p",";">>, <<" ">>)
    [] k = 13 -> ReplaceLit(html, <<"&","a","m","p",";">>, <<"&">>)
    [] k = 14 -> ReplaceLit(html, <<"&","l","t",";">>, <<"<">>)
    [] k = 15 -> ReplaceLit(html, <<"&","g","t",";">>, <<">">>)
    [] k = 16 -> ReplaceLit(html, <<"&","q","u","o","t",";">>, <<"\"">>)
    [] k = 17 -> CollapseBlankLines(html)
    [] k = 18 -> Trim(html)

\* html after statements k to last; every statement leaves the empty
\* string empty. Each statement assigns its result before the next one
\* reads it: h is that value
RECURSIVE Statements(_, _, _)
Statements(html, k, last) ==
  CHOOSE out \in {IF h = <<>> \/ k > last THEN h
                               ELSE Statements(Statement(k, h), k + 1, last) :
                  h \in {html}} : TRUE

\* the text after tag stripping and entity decoding, before the clean-up
Decoded(s) == Statements(s, 1, 16)

\* the whole conversion of getMediumArticle
NormalizeHtml(s) == Statements(s, 1, 18)

\* ------------------------------------------------------------------------
\* Configuration and texts
\* ------------------------------------------------------------------------

\* the value of a property or variable that is not set
Undefined == "undefined"

\* this.owner, this.repo
Owner == "AndreQuintero"
Repo  == "with-custom-cursor"

\* this.mediumArticleUrl when MEDIUM_ARTICLE_URL is not set
DefaultArticleUrl ==
  "https://medium.com/@andre.quintero96/the-react-with-custom-cursor-library-773007d60135"

\* the two builds of the server: src/index.js and src/unnamed/part_000
Variants == {"index.js", "part_000"}

\* a descriptor of the ListTools answer: its name and the required
\* properties of its inputSchema
Tool(n) ==
  [name |-> n, required |-> IF n = "get_file_content" THEN <<"file_path">> ELSE <<>>]

\* an answer that leaves out the two tools added last
DescriptorsOfFour(v) ==
  <<Tool("get_readme"), Tool("get_project_files"), Tool("get_file_content"),
    Tool("search_docs")>>

\* the tools array the ListTools handler of build v returns
Descriptors(v) ==
  IF v = "index.js"
    THEN <<Tool("get_readme"), Tool("get_project_files"), Tool("get_file_content"),
           Tool("search_docs"), Tool("get_medium_article"), Tool("get_all_documentation")>>
    ELSE <<Tool("get_readme"), Tool("get_project_files"), Tool("get_file_content"),
           Tool("search_docs")>>

\* no ListTools answer
NoList == <<>>

\* the names the CallTool handler routes to a handler
Dispatched(v) ==
  IF v = "index.js"
    THEN {"get_readme", "get_project_files", "get_file_content", "search_docs",
          "get_medium_article", "get_all_documentation"}
    ELSE {"get_readme", "get_project_files", "get_file_content", "search_docs"}

\* readmeFiles and branches of getReadme
ReadmeFiles == <<"README.md", "readme.md", "Readme.md", "README.MD">>
Branches(branch) == <<branch, "main", "master">>

\* the pairs of loops that stop after the first branch
ProbesOfOneBranch == Len(ReadmeFiles)

\* the number of (branch, filename) pairs the two loops of getReadme visit
ProbeCount == Len(Branches("main")) * Len(ReadmeFiles)

\* the i-th pair of loops nested the other way: filenames outside
FilenameMajorPair(branch, i) ==
  [branch   |-> Branches(branch)[((i - 1) % Len(Branches(branch))) + 1],
   filename |-> ReadmeFiles[((i - 1) \div Len(Branches(branch))) + 1]]

\* the i-th pair the nested loops visit: branches outside, filenames inside
ProbePair(branch, i) ==
  [branch   |-> Branches(branch)[((i - 1) \div Len(ReadmeFiles)) + 1],
   filename |-> ReadmeFiles[((i - 1) % Len(ReadmeFiles)) + 1]]

\* headers of a request to the GitHub API that never carry the token
AnonymousHeaders(tok) ==
  [Accept        |-> "application/vnd.github.v3+json",
   UserAgent     |-> "MCP-WithCustomCursor-Server",
   Authorization |-> <<>>]

\* the headers of a request to the GitHub API
GithubHeaders(tok) ==
  [Accept        |-> "application/vnd.github.v3+json",
   UserAgent     |-> "MCP-WithCustomCursor-Server",
   Authorization |-> IF tok # Undefined /\ tok # "" THEN <<"token ", tok>> ELSE <<>>]

\* the headers of the request to the article URL
ArticleHeaders ==
  [Accept        |-> Undefined,
   UserAgent     |-> "MCP-WithCustomCursor-Server",
   Authorization |-> <<>>]

\* Buffer.from(content, 'base64').toString('utf-8') on the contents the
\* upstream of this model serves
Base64Decode(c) ==
  CASE c = "e30="     -> <<"{}">>
    [] c = "IyBIaQ==" -> <<"# Hi">>
    [] OTHER          -> <<>>

\* the three backticks of a fenced block
Fence == "FENCE"

\* messages of the faults the runtime raises
FetchFailed   == "request failed, reason: connect ECONNREFUSED"
InvalidJson   == "invalid json response body"
NotABuffer    == "The first argument must be of type string or an instance of Buffer"
NoItems       == "Cannot read properties of undefined (reading 'map')"

\* new Date().toISOString()
Now == "2024-01-01T00:00:00.000Z"

\* ------------------------------------------------------------------------
\* The upstream: what a fetch can settle to
\* ------------------------------------------------------------------------
MaxEntries == 2

EntryNames == {"README.md", "src"}

\* one entry of a listing or of a search result
Entry(n) ==
  [name |-> n, type |-> IF n = "src" THEN "dir" ELSE "file", path |-> n,
   size |-> IF n = "src" THEN "0" ELSE "120",
   html_url |-> IF n = "src" THEN "https://github.com/x/tree/src"
                             ELSE "https://github.com/x/blob/README.md"]

NoEntry == [name |-> Undefined, type |-> Undefined, path |-> Undefined,
            size |-> Undefined, html_url |-> Undefined]

\* the sequences of at most MaxEntries entries
EntryLists ==
  UNION {[1..n -> {Entry(e) : e \in EntryNames}] : n \in 0..MaxEntries}

\* a settled fetch: rejected (kind "fault") or a response (kind "http") with
\* its status and what its body parses to
Settled(kind, ok, status, shape, entry, content, items, body) ==
  [kind |-> kind, ok |-> ok, status |-> status, shape |-> shape, entry |-> entry,
   content |-> content, items |-> items, html |-> body]

NoResponse == Settled("none", FALSE, Undefined, Undefined, NoEntry, Undefined, <<>>, <<>>)
Fault      == Settled("fault", FALSE, Undefined, Undefined, NoEntry, Undefined, <<>>, <<>>)
Status(code) == Settled("http", FALSE, code, Undefined, NoEntry, Undefined, <<>>, <<>>)
Malformed  == Settled("http", TRUE, "200", "invalid", NoEntry, Undefined, <<>>, <<>>)

\* a file entry with its base64 content
FileObject(c) ==
  Settled("http", TRUE, "200", "object",
          [Entry("README.md") EXCEPT !.size = IF c = "e30=" THEN "2" ELSE "120"],
          c, <<>>, <<>>)

\* an entry that is not a file and carries no content
OtherObject ==
  Settled("http", TRUE, "200", "object",
          [Entry("src") EXCEPT !.type = "submodule"], Undefined, <<>>, <<>>)

Listing(l)   == Settled("http", TRUE, "200", "array", NoEntry, Undefined, l, <<>>)
Found(l)     == Settled("http", TRUE, "200", "search", NoEntry, Undefined, l, <<>>)
Page(body)   == Settled("http", TRUE, "200", "html", NoEntry, Undefined, <<>>, body)

\* sample article pages
PagePlain == <<"H","i"," ","&","a","m","p",";"," ","y","o","u","\n","\n","\n","\n","b","y","e">>

PageArticle ==
  <<"<","s","t","y","l","e",">","p","{","}","<","/","s","t","y","l","e",">",
    "<","s","c","r","i","p","t",">","x","<","y","<","/","s","c","r","i","p","t",">",
    "<","n","a","v",">","m","<","/","n","a","v",">",
    "<","a","r","t","i","c","l","e"," ","i","d","=","\"","m","\"",">",
    "<","H","1",">","T","<","/","h","1",">",
    "<","p",">","a"," ","<","s","t","r","o","n","g",">","b","<","/","s","t","r","o","n","g",">",
    " ","<","e","m",">","c","<","/","e","m",">"," ",
    "<","c","o","d","e",">","d","<","/","c","o","d","e",">","<","/","p",">",
    "<","p","r","e",">","e","<","/","p","r","e",">",
    "<","a"," ","h","r","e","f","=","\"","u","\"",">","l","<","/","a",">",
    "<","b","r","/",">",
    "<","/","a","r","t","i","c","l","e",">","f">>

ArticlePages == {PagePlain, PageArticle, <<>>}

\* a site with an empty page and a page of one letter
PageShort  == <<"a">>
ShortPages == {PageShort, <<>>}

\* what a request to each API can settle to
Outcomes(api, pages) ==
  CASE api = "contents" ->
         {Fault, Status("404"), Malformed, OtherObject}
           \cup {FileObject(c) : c \in {"e30=", "IyBIaQ=="}}
           \cup {Listing(l) : l \in EntryLists}
    [] api = "search" ->
         {Fault, Status("403"), Malformed, OtherObject}
           \cup {Found(l) : l \in EntryLists}
    [] api = "article" ->
         {Fault, Status("404"), Status("503")} \cup {Page(b) : b \in pages}

\* ------------------------------------------------------------------------
\* Inputs
\* ------------------------------------------------------------------------
NoArgs == [k \in {} |-> Undefined]

\* GITHUB_TOKEN not set, set to the empty string, set to a token
TokenInputs == {Undefined, "", "ghp_x"}

BranchInputs == {"main", "dev"}

PathInputs == {"", "src"}

FilePaths ==
  {<<"M","a","k","e","f","i","l","e">>,
   <<"L","I","C","E","N","S","E">>,
   <<"s","c","r","i","p","t",".","p","y">>,
   <<"p","a","c","k","a","g","e",".","j","s","o","n">>,
   <<"d","o","c","s","/","A",".","M","D">>,
   <<"s","r","c",".","v","2","/","M","a","k","e","f","i","l","e">>}

PackageJson == <<"p","a","c","k","a","g","e",".","j","s","o","n">>

ToolNameInputs == Dispatched("index.js") \cup {"bogus"}

\* the argument objects a host sends with a tool name; inputSchema makes
\* every one an object
ArgsFor(n) ==
  CASE n = "get_readme" -> {NoArgs} \cup {[branch |-> b] : b \in BranchInputs}
    [] n = "get_project_files" -> {NoArgs} \cup {[path |-> p] : p \in PathInputs}
    [] n = "get_file_content" ->
         {[file_path |-> f] : f \in FilePaths}
           \cup {[file_path |-> PackageJson, branch |-> "dev"]}
    [] OTHER -> {NoArgs}

\* ------------------------------------------------------------------------
\* State
\* ------------------------------------------------------------------------
VARIABLES
  variant,      \* which build runs
  articles,     \* the pages the article's site serves
  token,        \* process.env.GITHUB_TOKEN
  pc,           \* where the invocation stands
  name,         \* request.params.name
  args,         \* request.params.arguments
  params,       \* the running handler's parameters after their defaults
  caller,       \* who awaits the running handler: "dispatch" or "aggregate"
  i,            \* the pair the loops of getReadme stand at
  issued,       \* the requests this invocation has handed to fetch, in order
  pending,      \* positions in issued of the fetches not yet settled
  response,     \* what the awaited fetch settled to
  attemptErrors,\* texts and status codes of the attempts getReadme gave up
  firstOk,      \* the first attempt of getReadme answered with a success status
  ret,          \* how the running handler ended: returned text or thrown message
  sections,     \* readmeContent, articleContent, packageInfo collected so far
  subResults,   \* how each handler getAllDocumentation called ended
  result,       \* what the CallTool handler gave the host
  listed        \* what the ListTools handler gave the host

vars == <<variant, articles, token, pc, name, args, params, caller, i, issued, pending,
          response, attemptErrors, firstOk, ret, sections, subResults, result, listed>>

NoParams == [branch |-> Undefined, path |-> Undefined, file_path |-> <<>>]
NoRet    == [kind |-> "none", text |-> <<>>]
NoResult == [kind |-> "none", content |-> <<>>]

Returned(txt) == [kind |-> "return", text |-> txt]
Thrown(msg)   == [kind |-> "throw", text |-> msg]

\* { content: [{ type: "text", text }] }
Envelope(txt) == [kind |-> "envelope", content |-> <<[type |-> "text", text |-> txt]>>]

\* a rejection of the CallTool handler's promise
Rejection(msg) == [kind |-> "fault", content |-> <<[type |-> "error", text |-> msg]>>]

\* a CallTool handler without its catch: the handler's error rejects
Rethrow(r) ==
  IF r.kind = "return" THEN Envelope(r.text) ELSE Rejection(r.text)

\* the try/catch of the CallTool handler around the awaited handler
Respond(r) ==
  IF r.kind = "return" THEN Envelope(r.text)
  ELSE Envelope(<<"Error: ">> \o r.text)

\* the server started with one of tokens in its environment, against a
\* site that serves pages
Start(tokens, pages) ==
  /\ variant \in Variants
  /\ articles = pages
  /\ token \in tokens
  /\ pc = "idle"
  /\ name = Undefined
  /\ args = NoArgs
  /\ params = NoParams
  /\ caller = "dispatch"
  /\ i = 1
  /\ issued = <<>>
  /\ pending = {}
  /\ response = NoResponse
  /\ attemptErrors = {}
  /\ firstOk = 0
  /\ ret = NoRet
  /\ sections = <<>>
  /\ subResults = <<>>
  /\ result = NoResult
  /\ listed = NoList

Init == Start(TokenInputs, ArticlePages)

\* ------------------------------------------------------------------------
\* fetch and await
\* ------------------------------------------------------------------------
Request(api, target, ref, headers) ==
  [api |-> api, target |-> target, ref |-> ref, headers |-> headers]

\* fetch(url, { headers }): the request leaves and its promise is pending
Fetch(req) ==
  /\ issued' = Append(issued, req)
  /\ pending' = pending \cup {Len(issued) + 1}
  /\ response' = NoResponse

\* a handler that goes on without awaiting its fetch
NotAwaited == TRUE

\* await: the handler goes on only when the fetch has settled
Awaited == response.kind # "none"

\* the upstream answers a pending fetch, or the transport fails it
UpstreamSettles ==
  \E k \in pending : \E r \in Outcomes(issued[k].api, articles) :
    /\ pending' = pending \ {k}
    /\ response' = r
    /\ UNCHANGED <<articles, listed, variant, token, pc, name, args, params, caller, i, issued,
                   attemptErrors, firstOk, ret, sections, subResults, result>>

\* the handler ends: its caller goes on
End(r) ==
  /\ ret' = r
  /\ pc' = "return"

\* ------------------------------------------------------------------------
\* Handlers
\* ------------------------------------------------------------------------
\* the parameters of handler h called with a, after destructuring defaults
Destructure(h, a) ==
  CASE h = "get_readme" ->
         [NoParams EXCEPT !.branch = IF "branch" \in DOMAIN a THEN a.branch ELSE "main"]
    [] h = "get_project_files" ->
         [NoParams EXCEPT !.path = IF "path" \in DOMAIN a THEN a.path ELSE ""]
    [] h = "get_file_content" ->
         [NoParams EXCEPT !.file_path = a.file_path,
                          !.branch = IF "branch" \in DOMAIN a THEN a.branch ELSE "main"]
    [] OTHER -> NoParams

\* entering handler h with arguments a on behalf of c
Call(h, a, c) ==
  /\ pc' = h
  /\ params' = Destructure(h, a)
  /\ caller' = c
  /\ i' = 1
  /\ attemptErrors' = {}
  /\ firstOk' = 0

\* the ListTools handler: the host gets the tools array
ListTools ==
  /\ pc = "idle"
  /\ listed' = Descriptors(variant)
  /\ pc' = "listed"
  /\ UNCHANGED <<articles, variant, token, name, args, params, caller, i, issued, pending, response,
                 attemptErrors, firstOk, ret, sections, subResults, result>>

\* the CallTool handler: route the name, or throw "Unknown tool"
CallTool ==
  /\ pc = "idle"
  /\ \E n \in ToolNameInputs : \E a \in ArgsFor(n) :
       /\ name' = n
       /\ args' = a
       /\ IF n \in Dispatched(variant)
            THEN /\ Call(n, a, "dispatch")
                 /\ UNCHANGED ret
            ELSE /\ End(Thrown(<<"Unknown tool: ", n>>))
                 /\ UNCHANGED <<params, caller, i, attemptErrors, firstOk>>
  /\ UNCHANGED <<articles, listed, variant, token, issued, pending, response, sections, subResults, result>>

\* getReadme: the fetch of the pair the loops stand at
getReadme ==
  /\ pc = "get_readme"
  /\ LET pair == ProbePair(params.branch, i)
     IN  Fetch(Request("contents", <<pair.filename>>, pair.branch, GithubHeaders(token)))
  /\ pc' = "get_readme_await"
  /\ UNCHANGED <<articles, listed, variant, token, name, args, params, caller, i, attemptErrors, firstOk,
                 ret, sections, subResults, result>>

\* the text getReadme returns
ReadmeText(filename, branchName, content) ==
  <<"# with-custom-cursor Project Documentation\n\nRepository: https://github.com/",
    Owner, "/", Repo, "\nFile: ", filename, " (branch: ", branchName, ")", "\n\n---\n\n">>
    \o content

\* a final error that carries the cause of the last attempt
ReadmeNotFoundBecause ==
  <<"README not found in ", Owner, "/", Repo,
    ". Tried multiple branches and filename variations.", " Last error: ", FetchFailed>>

ReadmeNotFound ==
  <<"README not found in ", Owner, "/", Repo,
    ". Tried multiple branches and filename variations.">>

\* whether the try block of getReadme reaches its return with response r
ReadmeDecodes(r) ==
  /\ r.kind = "http"
  /\ r.ok
  /\ r.shape # "invalid"
  /\ r.content # Undefined

\* what an attempt that did not return leaves behind: the error its catch
\* swallows, or the status the if passed over
AttemptError(r) ==
  CASE r.kind = "fault"      -> {FetchFailed}
    [] r.kind = "none"       -> {}
    [] ~r.ok                 -> {r.status}
    [] r.shape = "invalid"   -> {InvalidJson}
    [] r.content = Undefined -> {NotABuffer}
    [] OTHER                 -> {}

\* getReadme after its await: return on the first attempt that decodes, go to
\* the next pair otherwise, throw after the last
getReadmeResume ==
  /\ pc = "get_readme_await"
  /\ Awaited
  /\ LET pair == ProbePair(params.branch, i)
     IN  /\ firstOk' = IF firstOk = 0 /\ response.kind = "http" /\ response.ok
                         THEN i ELSE firstOk
         /\ IF ReadmeDecodes(response)
              THEN /\ End(Returned(ReadmeText(pair.filename, pair.branch,
                                              Base64Decode(response.content))))
                   /\ UNCHANGED <<i, attemptErrors>>
              ELSE /\ attemptErrors' = attemptErrors \cup AttemptError(response)
                   /\ IF i < ProbeCount
                        THEN /\ i' = i + 1
                             /\ pc' = "get_readme"
                             /\ UNCHANGED ret
                        ELSE /\ End(Thrown(ReadmeNotFound))
                             /\ UNCHANGED i
  /\ UNCHANGED <<articles, listed, variant, token, name, args, params, caller, issued, pending, response,
                 sections, subResults, result>>

\* the message of the error a handler without a catch lets through when the
\* fetch rejects or the body does not parse
Escapes(r) == IF r.kind = "fault" THEN <<FetchFailed>> ELSE <<InvalidJson>>

\* getProjectFiles: its one fetch
getProjectFiles ==
  /\ pc = "get_project_files"
  /\ Fetch(Request("contents", <<params.path>>, Undefined, GithubHeaders(token)))
  /\ pc' = "get_project_files_await"
  /\ UNCHANGED <<articles, listed, variant, token, name, args, params, caller, i, attemptErrors, firstOk,
                 ret, sections, subResults, result>>

\* `${path ? `/${path}` : ''}`
PathSuffix(path) == IF path # "" THEN <<"/", path>> ELSE <<>>

\* a listing that takes every body for an array
ArrayOnly(r) == r.items

\* Array.isArray(data) ? data : [data]
FileList(r) == IF r.shape = "array" THEN r.items ELSE <<r.entry>>

\* one line group of the listing
FileLine(f) ==
  <<"- **", f.name, "** (", f.type, ") - ", f.size, " bytes\n  Path: ", Backtick, f.path,
    Backtick, "\n  URL: ", f.html_url>>

\* lines.join(sep)
Joined(lines, sep) ==
  LET parts == [k \in 1..Len(lines) |->
                  IF k = 1 THEN lines[k] ELSE <<sep>> \o lines[k]]
  IN  Concat(parts, 1, Len(lines))

FilesText(path, files) ==
  <<"# Files in with-custom-cursor">> \o PathSuffix(path) \o <<"\n\n">>
    \o Joined([k \in 1..Len(files) |-> FileLine(files[k])], "\n\n")

getProjectFilesResume ==
  /\ pc = "get_project_files_await"
  /\ Awaited
  /\ IF response.kind = "fault" \/ (response.ok /\ response.shape = "invalid")
       THEN End(Thrown(Escapes(response)))
       ELSE IF ~response.ok
         THEN End(Thrown(<<"Failed to fetch files from ", Owner, "/", Repo>>
                           \o PathSuffix(params.path)))
         ELSE End(Returned(FilesText(params.path, FileList(response))))
  /\ UNCHANGED <<articles, listed, variant, token, name, args, params, caller, i, issued, pending, response,
                 attemptErrors, firstOk, sections, subResults, result>>

\* getFileContent: its one fetch
getFileContent ==
  /\ pc = "get_file_content"
  /\ Fetch(Request("contents", params.file_path, params.branch, GithubHeaders(token)))
  /\ pc' = "get_file_content_await"
  /\ UNCHANGED <<articles, listed, variant, token, name, args, params, caller, i, attemptErrors, firstOk,
                 ret, sections, subResults, result>>

\* file_path.split('.').pop()?.toLowerCase()
FileExtension(path) ==
  LET dots == {k \in 1..Len(path) : path[k] = "."}
  IN  ToLowerCase(Slice(path, MaxOrZero(dots) + 1, Len(path)))

FileText(path, branch, size, content) ==
  <<"# File: ">> \o path
    \o <<"\n\nRepository: with-custom-cursor\nBranch: ", branch, "\nSize: ", size,
         " bytes\n\n", Fence>>
    \o FileExtension(path) \o <<"\n">> \o content \o <<"\n", Fence>>

\* data.type of the parsed body
DataType(r) == IF r.shape = "object" THEN r.entry.type ELSE Undefined

getFileContentResume ==
  /\ pc = "get_file_content_await"
  /\ Awaited
  /\ IF response.kind = "fault" \/ (response.ok /\ response.shape = "invalid")
       THEN End(Thrown(Escapes(response)))
       ELSE IF ~response.ok
         THEN End(Thrown(<<"File not found: ">> \o params.file_path
                           \o <<" in branch ", params.branch>>))
         ELSE IF DataType(response) # "file"
           THEN End(Thrown(params.file_path
                             \o <<" is not a file (it's a ", DataType(response), ")">>))
           ELSE End(Returned(FileText(params.file_path, params.branch,
                                      response.entry.size,
                                      Base64Decode(response.content))))
  /\ UNCHANGED <<articles, listed, variant, token, name, args, params, caller, i, issued, pending, response,
                 attemptErrors, firstOk, sections, subResults, result>>

\* searchDocs: its one fetch
searchDocs ==
  /\ pc = "search_docs"
  /\ Fetch(Request("search", <<"filename:*.md+repo:", Owner, "/", Repo>>, Undefined,
                   GithubHeaders(token)))
  /\ pc' = "search_docs_await"
  /\ UNCHANGED <<articles, listed, variant, token, name, args, params, caller, i, attemptErrors, firstOk,
                 ret, sections, subResults, result>>

DocLine(f) ==
  <<"- **", f.name, "**\n  Path: ", Backtick, f.path, Backtick, "\n  URL: ", f.html_url>>

\* a search result that always renders the list
ListOnly(files) ==
  <<"# Documentation files found in with-custom-cursor:\n\n">>
    \o Joined([k \in 1..Len(files) |-> DocLine(files[k])], "\n\n")

SearchText(files) ==
  <<"# Documentation files found in with-custom-cursor:\n\n">>
    \o (IF Len(files) > 0
          THEN Joined([k \in 1..Len(files) |-> DocLine(files[k])], "\n\n")
        ELSE <<"No markdown documentation files found.">>)

searchDocsResume ==
  /\ pc = "search_docs_await"
  /\ Awaited
  /\ IF response.kind = "fault" \/ (response.ok /\ response.shape = "invalid")
       THEN End(Thrown(Escapes(response)))
       ELSE IF ~response.ok
         THEN End(Thrown(<<"Failed to search documentation in ", Owner, "/", Repo>>))
         ELSE IF response.shape # "search"
           THEN End(Thrown(<<NoItems>>))
           ELSE End(Returned(SearchText(response.items)))
  /\ UNCHANGED <<articles, listed, variant, token, name, args, params, caller, i, issued, pending, response,
                 attemptErrors, firstOk, sections, subResults, result>>

\* getMediumArticle: its one fetch
getMediumArticle ==
  /\ pc = "get_medium_article"
  /\ Fetch(Request("article", <<DefaultArticleUrl>>, Undefined, ArticleHeaders))
  /\ pc' = "get_medium_article_await"
  /\ UNCHANGED <<articles, listed, variant, token, name, args, params, caller, i, attemptErrors, firstOk,
                 ret, sections, subResults, result>>

ArticleText(body) ==
  <<"# Medium Article: with-custom-cursor Tutorial\n\nSource: ", DefaultArticleUrl,
    "\n\n---\n\n">> \o NormalizeHtml(body)

\* every error of the try block, the one thrown for a bad status included,
\* is caught and thrown again behind the same prefix
getMediumArticleResume ==
  /\ pc = "get_medium_article_await"
  /\ Awaited
  /\ IF response.kind = "fault"
       THEN End(Thrown(<<"Failed to fetch Medium article: ", FetchFailed>>))
       ELSE IF ~response.ok
         THEN End(Thrown(<<"Failed to fetch Medium article: ",
                           "Failed to fetch Medium article: ", response.status>>))
         ELSE End(Returned(ArticleText(response.html)))
  /\ UNCHANGED <<articles, listed, variant, token, name, args, params, caller, i, issued, pending, response,
                 attemptErrors, firstOk, sections, subResults, result>>

\* ------------------------------------------------------------------------
\* getAllDocumentation
\* ------------------------------------------------------------------------
\* the handlers it calls, in order, with their arguments
SubCalls ==
  <<[handler |-> "get_readme", args |-> NoArgs],
    [handler |-> "get_medium_article", args |-> NoArgs],
    [handler |-> "get_file_content", args |-> [file_path |-> PackageJson]]>>

\* what stands for a section whose handler threw
Placeholders ==
  <<"README not available: ", "Medium article not available: ",
    "Package.json not available: ">>

\* the k-th call without its try/catch: no placeholder
Unguarded(k, r) == r.text

\* the try/catch around the k-th call
Section(k, r) ==
  IF r.kind = "return" THEN r.text ELSE <<Placeholders[k]>> \o r.text

Rule == "---\n\n"

CombinedContent(s) ==
  <<"# Complete with-custom-cursor Documentation\n\n",
    "Repository: https://github.com/", Owner, "/", Repo, "\n",
    "Last updated: ", Now, "\n\n", Rule>> \o s[1] \o <<"\n\n", Rule>> \o s[2]
    \o <<"\n\n", Rule>> \o s[3]

\* getAllDocumentation between its calls: call the next handler, or return
\* the combined document after the last
getAllDocumentation ==
  /\ pc = "get_all_documentation"
  /\ IF Len(sections) < Len(SubCalls)
       THEN /\ Call(SubCalls[Len(sections) + 1].handler,
                    SubCalls[Len(sections) + 1].args, "aggregate")
            /\ UNCHANGED ret
       ELSE /\ End(Returned(CombinedContent(sections)))
            /\ UNCHANGED <<params, caller, i, attemptErrors, firstOk>>
  /\ UNCHANGED <<articles, listed, variant, token, name, args, issued, pending, response, sections,
                 subResults, result>>

\* a handler getAllDocumentation called ends: its section is its text or
\* the placeholder with the error's message
Collect ==
  /\ pc = "return"
  /\ caller = "aggregate"
  /\ sections' = Append(sections, Section(Len(sections) + 1, ret))
  /\ subResults' = Append(subResults, ret)
  /\ caller' = "dispatch"
  /\ pc' = "get_all_documentation"
  /\ ret' = NoRet
  /\ attemptErrors' = {}
  /\ firstOk' = 0
  /\ UNCHANGED <<articles, listed, variant, token, name, args, params, i, issued, pending, response, result>>

\* the handler the CallTool handler awaited ends: the host gets its envelope
Reply ==
  /\ pc = "return"
  /\ caller = "dispatch"
  /\ result' = Respond(ret)
  /\ pc' = "done"
  /\ UNCHANGED <<articles, listed, variant, token, name, args, params, caller, i, issued, pending, response,
                 attemptErrors, firstOk, ret, sections, subResults>>

\* the host sends its next request; nothing of the last invocation is kept
NextRequest ==
  /\ pc \in {"done", "listed"}
  /\ pc' = "idle"
  /\ name' = Undefined
  /\ args' = NoArgs
  /\ params' = NoParams
  /\ i' = 1
  /\ issued' = <<>>
  /\ pending' = {}
  /\ response' = NoResponse
  /\ attemptErrors' = {}
  /\ firstOk' = 0
  /\ ret' = NoRet
  /\ sections' = <<>>
  /\ subResults' = <<>>
  /\ result' = NoResult
  /\ UNCHANGED <<articles, variant, token, caller>>
  /\ listed' = NoList

Next ==
  \/ ListTools
  \/ CallTool
  \/ getReadme
  \/ getReadmeResume
  \/ getProjectFiles
  \/ getProjectFilesResume
  \/ getFileContent
  \/ getFileContentResume
  \/ searchDocs
  \/ searchDocsResume
  \/ getMediumArticle
  \/ getMediumArticleResume
  \/ getAllDocumentation
  \/ Collect
  \/ Reply
  \/ UpstreamSettles
  \/ NextRequest

Spec == Init /\ [][Next]_vars

\* ------------------------------------------------------------------------
\* The conversion of getMediumArticle on pages made of a few short lines
\* ------------------------------------------------------------------------
MaxLines == 4

\* the lines a page is made of: empty, blank, text, entity references, markup
Lines ==
  {<<>>, <<" ">>, <<"a">>,
   <<"&","a","m","p",";">>,
   <<"&","a","m","p",";","l","t",";">>,
   <<"<","p",">","b","<","/","p",">">>}

\* the pages of at most MaxLines lines
LinePages ==
  UNION {{Joined(l, "\n") : l \in [1..n -> Lines]} : n \in 0..MaxLines}

\* the article fetch of a get_medium_article call has settled with a page
InitHtml ==
  /\ variant = "index.js"
  /\ articles = LinePages
  /\ token = Undefined
  /\ pc = "get_medium_article_await"
  /\ name = "get_medium_article"
  /\ args = NoArgs
  /\ params = NoParams
  /\ caller = "dispatch"
  /\ i = 1
  /\ issued = <<Request("article", <<DefaultArticleUrl>>, Undefined, ArticleHeaders)>>
  /\ pending = {}
  /\ response \in {Page(b) : b \in LinePages}
  /\ attemptErrors = {}
  /\ firstOk = 0
  /\ ret = NoRet
  /\ sections = <<>>
  /\ subResults = <<>>
  /\ result = NoResult
  /\ listed = NoList

NextHtml ==
  \/ getMediumArticleResume
  \/ Reply

SpecHtml == InitHtml /\ [][NextHtml]_vars

\* ------------------------------------------------------------------------
\* Properties
\* ------------------------------------------------------------------------
\* the handler the invocation is in
Running == IF caller = "aggregate" THEN SubCalls[Len(sections) + 1].handler ELSE name

\* getReadme is running or has just ended
ReadmeRuns ==
  /\ pc \in {"get_readme", "get_readme_await", "return"}
  /\ Running = "get_readme"

\* whether piece x occurs in text
Holds(text, x) == \E k \in 1..Len(text) : text[k] = x

\* the pieces that follow each occurrence of mark in text, in order
After(text, mark) ==
  LET at == Ascending({k \in 1..(Len(text) - 1) : text[k] = mark})
  IN  [m \in 1..Len(at) |-> text[at[m] + 1]]

\* C1: every invocation ends with an envelope holding exactly one text item
\* and never with a rejection; when the handler threw, the text is "Error: "
\* followed by the message; for a name that is not routed the message is
\* "Unknown tool: <name>" and no fetch was issued.
C1_EnvelopeAlways ==
  /\ result.kind \in {"none", "envelope"}
  /\ pc = "done" =>
       /\ result.kind = "envelope"
       /\ Len(result.content) = 1
       /\ result.content[1].type = "text"
       /\ ret.kind = "return" => result.content[1].text = ret.text
       /\ ret.kind = "throw" =>
            /\ result.content[1].text[1] = "Error: "
            /\ Tail(result.content[1].text) = ret.text
       /\ name \notin Dispatched(variant) =>
            /\ result.content[1].text = <<"Error: ", "Unknown tool: ", name>>
            /\ issued = <<>>

\* an unknown name has been answered
C1_Witness ==
  /\ pc = "done"
  /\ name = "bogus"
  /\ result = Envelope(<<"Error: ", "Unknown tool: ", "bogus">>)

\* the search order of the README for requested branch b, written out
SearchOrder(b) ==
  <<<<b, "README.md">>, <<b, "readme.md">>, <<b, "Readme.md">>, <<b, "README.MD">>,
    <<"main", "README.md">>, <<"main", "readme.md">>, <<"main", "Readme.md">>,
    <<"main", "README.MD">>,
    <<"master", "README.md">>, <<"master", "readme.md">>, <<"master", "Readme.md">>,
    <<"master", "README.MD">>>>

\* C2: getReadme issues its fetches in the order branch-major, filename-minor
\* over [b, main, master] x [README.md, readme.md, Readme.md, README.MD]; it
\* goes to the next pair only after a response that has no success status or
\* whose body does not decode, returns on the first response with a success
\* status whose body decodes, issues nothing after it, and the returned text
\* names the filename and the branch of that fetch.
C2_FirstDecodableWins ==
  ReadmeRuns =>
    LET order == SearchOrder(params.branch)
        n     == Len(issued)
    IN  /\ n <= Len(order)
        /\ \A k \in 1..n :
             /\ issued[k].api = "contents"
             /\ issued[k].ref = order[k][1]
             /\ issued[k].target = <<order[k][2]>>
        /\ (pc = "get_readme" /\ n > 0) => ~ReadmeDecodes(response)
        /\ (pc = "return" /\ ret.kind = "return") =>
             /\ ReadmeDecodes(response)
             /\ pending = {}
             /\ After(ret.text, "\nFile: ") = <<order[n][2]>>
             /\ After(ret.text, " (branch: ") = <<order[n][1]>>

\* getReadme returned a README found on branch master after earlier misses
C2_Witness ==
  /\ ReadmeRuns
  /\ pc = "return"
  /\ ret.kind = "return"
  /\ params.branch = "dev"
  /\ Len(issued) = 10
  /\ firstOk < Len(issued) /\ firstOk # 0

\* C2 as stated: getReadme stops at the first fetch whose status indicates
\* success, so no fetch is issued after it.
C2_StopsAtFirstSuccessStatus ==
  (ReadmeRuns /\ firstOk # 0) => Len(issued) = firstOk

\* C3: when all 12 attempts fail, getReadme throws one error whose message
\* names the owner and the repository and says that multiple branches and
\* filename variations were tried, and holds none of the error texts or
\* status codes of the attempts.
C3_NotFoundAfterTwelve ==
  (ReadmeRuns /\ pc = "return" /\ ret.kind = "throw") =>
    /\ Len(issued) = 12
    /\ \E k \in 1..(Len(ret.text) - 2) :
         /\ ret.text[k] = "AndreQuintero"
         /\ ret.text[k + 1] = "/"
         /\ ret.text[k + 2] = "with-custom-cursor"
    /\ Holds(ret.text, ". Tried multiple branches and filename variations.")
    /\ \A e \in attemptErrors : ~Holds(ret.text, e)

\* all 12 attempts failed, some by a fault and some by a 404
C3_Witness ==
  /\ ReadmeRuns
  /\ pc = "return"
  /\ ret.kind = "throw"
  /\ {FetchFailed, "404"} \subseteq attemptErrors

\* the language hint of a fenced block: what stands between the opening
\* fence and the end of its line
HintOf(text) ==
  LET open == MinOrZero({k \in 1..Len(text) : text[k] = Fence})
      eol  == MinOrZero({k \in (open + 1)..Len(text) : text[k] = "\n"})
  IN  Slice(text, open + 1, eol - 1)

\* the file name of a path: what follows its last '/'
BaseName(path) ==
  Slice(path, MaxOrZero({k \in 1..Len(path) : path[k] = "/"}) + 1, Len(path))

\* the lowercased extension of a path, empty when its file name has no '.'
ExtensionOf(path) ==
  LET base == BaseName(path)
      dots == {k \in 1..Len(base) : base[k] = "."}
  IN  IF dots = {} THEN <<>>
      ELSE ToLowerCase(Slice(base, MaxOrZero(dots) + 1, Len(base)))

\* getFileContent has returned the text of a file
FileReturned ==
  /\ pc = "return"
  /\ Running = "get_file_content"
  /\ ret.kind = "return"

\* C4 as stated: on a successful file fetch the language hint of the fenced
\* block is the lowercased extension of the path, and it is empty when the
\* path has no extension.
C4_HintIsExtension ==
  FileReturned => HintOf(ret.text) = ExtensionOf(params.file_path)

\* C5: getAllDocumentation never throws; its document holds three sections
\* in the order README, article, manifest, each one the text its handler
\* returned or, when the handler threw, the placeholder of that section
\* followed by the error's message, whatever the other two did.
C5_ThreeSectionsAlways ==
  (pc = "return" /\ Running = "get_all_documentation" /\ name \in Dispatched(variant)) =>
    /\ ret.kind = "return"
    /\ Len(subResults) = 3
    /\ LET part(k, label) ==
             IF subResults[k].kind = "return" THEN subResults[k].text
             ELSE <<label>> \o subResults[k].text
           head == Len(ret.text) - Len(part(1, "README not available: "))
                     - Len(part(2, "Medium article not available: "))
                     - Len(part(3, "Package.json not available: ")) - 4
       IN  /\ head > 0
           /\ SubSeq(ret.text, head + 1, Len(ret.text)) =
                part(1, "README not available: ") \o <<"\n\n", "---\n\n">>
                  \o part(2, "Medium article not available: ") \o <<"\n\n", "---\n\n">>
                  \o part(3, "Package.json not available: ")
           /\ ret.text[head] = "---\n\n"

\* the README could not be found; the article and package.json were fetched
C5_Witness ==
  /\ pc = "return"
  /\ Running = "get_all_documentation"
  /\ Len(subResults) = 3
  /\ subResults[1].kind = "throw"
  /\ subResults[2].kind = "return"
  /\ subResults[3].kind = "return"

\* the names of the entries a text lists, in order
Listed(text) == After(text, "- **")

\* the names of the entries of a sequence, in order
NamesOf(entries) == [k \in 1..Len(entries) |-> entries[k].name]

\* C6: getProjectFiles issues exactly one fetch; on a success status a body
\* that is one object gives one entry and an array of n entries gives n, the
\* text listing one entry per upstream entry in upstream order; on another
\* status it throws a message naming the repository and the requested path.
C6_OneEntryPerUpstreamEntry ==
  (pc = "return" /\ Running = "get_project_files") =>
    /\ Len(issued) = 1
    /\ (response.kind = "http" /\ response.ok /\ response.shape = "object") =>
         /\ ret.kind = "return"
         /\ Listed(ret.text) = <<response.entry.name>>
    /\ (response.kind = "http" /\ response.ok /\ response.shape = "array") =>
         /\ ret.kind = "return"
         /\ Listed(ret.text) = NamesOf(response.items)
    /\ (response.kind = "http" /\ ~response.ok) =>
         /\ ret.kind = "throw"
         /\ Holds(ret.text, "AndreQuintero") /\ Holds(ret.text, "with-custom-cursor")
         /\ params.path # "" => Holds(ret.text, params.path)

\* the upstream answered with one object and the text lists one entry
C6_Witness ==
  /\ pc = "return"
  /\ Running = "get_project_files"
  /\ response.shape = "object"
  /\ Len(Listed(ret.text)) = 1

\* C7: searchDocs on a success status with zero matches returns a text that
\* says no markdown documentation files were found and lists nothing; with
\* n >= 1 matches it lists exactly n entries in upstream order and does not
\* say so.
C7_NoneFoundIffEmpty ==
  (pc = "return" /\ Running = "search_docs" /\ response.shape = "search") =>
    /\ ret.kind = "return"
    /\ Listed(ret.text) = NamesOf(response.items)
    /\ Holds(ret.text, "No markdown documentation files found.")
         <=> Len(response.items) = 0

\* a search with zero matches has returned
C7_Witness ==
  /\ pc = "return"
  /\ Running = "search_docs"
  /\ response.shape = "search"
  /\ response.items = <<>>
  /\ ret.kind = "return"

\* the place of a request in the order of getAllDocumentation: a README
\* probe, the article, package.json
Rank(req) ==
  IF req.api = "article" THEN 2
  ELSE IF req.target = PackageJson THEN 3
  ELSE 1

\* C10: at most one fetch of an invocation is pending at any time, and it is
\* the last one issued, so a fetch is issued only when the one before has
\* settled; in getAllDocumentation the README probes come before the article
\* fetch and the article fetch before the package.json fetch.
C10_OneFetchInFlight ==
  /\ Cardinality(pending) <= 1
  /\ pending \subseteq {Len(issued)}
  /\ name = "get_all_documentation" =>
       \A j, k \in 1..Len(issued) : j < k => Rank(issued[j]) <= Rank(issued[k])

\* getAllDocumentation awaits its package.json fetch after a failed README
\* search and the article fetch
C10_Witness ==
  /\ name = "get_all_documentation"
  /\ pc = "get_file_content_await"
  /\ pending = {Len(issued)}
  /\ Len(issued) = 14
  /\ Rank(issued[13]) = 2

\* getMediumArticle has returned the conversion of a page
Converted ==
  /\ pc = "return"
  /\ Running = "get_medium_article"
  /\ ret.kind = "return"

\* the page and the text made of it: what follows the header's rule
Input == response.html

Output ==
  LET rule == MinOrZero({k \in 1..Len(ret.text) : ret.text[k] = "\n\n---\n\n"})
  IN  Slice(ret.text, rule + 1, Len(ret.text))

\* the five entity references the conversion decodes
EntityReferences ==
  {<<"&","n","b","s","p",";">>, <<"&","a","m","p",";">>, <<"&","l","t",";">>,
   <<"&","g","t",";">>, <<"&","q","u","o","t",";">>}

\* no part of s is a tag: '<', one or more characters other than '>', '>'
NoTag(s) == \A k \in 1..Len(s) : TagEnd(s, k) = 0

\* no part of s is one of the five entity references
NoEntity(s) == \A k \in 1..Len(s) : \A e \in EntityReferences : ~StartsAt(s, k, e)

\* White space clean-up said by stretches of white space: a stretch at the
\* start or the end of d goes; a stretch between two other characters that
\* holds three or more newlines loses what lies between its first and its
\* last newline; every other character stays.
KeptPositions(d) ==
  LET ink      == {k \in 1..Len(d) : ~IsSpace(d[k])}
      left(k)  == MaxOrZero({m \in ink : m < k})
      right(k) == MinOrZero({m \in ink : m > k})
      nls(k)   == {m \in (left(k) + 1)..(right(k) - 1) : d[m] = "\n"}
  IN  {k \in 1..Len(d) :
         \/ k \in ink
         \/ /\ left(k) # 0
            /\ right(k) # 0
            /\ \/ Cardinality(nls(k)) < 3
               \/ k <= MinOrZero(nls(k))
               \/ k >= MaxOrZero(nls(k))}

Tidied(d) ==
  LET kept == Ascending(KeptPositions(d))
  IN  [m \in 1..Len(kept) |-> d[kept[m]]]

\* the lengths of the maximal runs of consecutive newlines of s, in order
NewlineRuns(s) ==
  LET starts == Ascending({k \in 1..Len(s) :
                             s[k] = "\n" /\ (k = 1 \/ s[k - 1] # "\n")})
      stop(k) == MinOrZero({m \in (k + 1)..(Len(s) + 1) : m > Len(s) \/ s[m] # "\n"})
  IN  [m \in 1..Len(starts) |-> stop(starts[m]) - starts[m]]

\* C8: on a page with no tag and none of the five entity references the
\* conversion changes white space only: white space at the start and the
\* end goes, a stretch of white space holding three or more newlines is cut
\* down to its first and last newline, everything else stays; converting
\* the result again changes nothing.
C8_PlainTextIdempotent ==
  (Converted /\ NoTag(Input) /\ NoEntity(Input)) =>
    /\ Output = Tidied(Input)
    /\ NormalizeHtml(Output) = Output

\* a plain page with white space to clean up has been converted
C8_Witness ==
  /\ Converted
  /\ NoTag(Input)
  /\ NoEntity(Input)
  /\ Output # <<>>
  /\ Len(Output) < Len(Input)

\* C8 as stated: on every page with no tag the result equals the page
\* except for white space collapsing, and converting it again changes
\* nothing.
C8_TagFreeIdempotent ==
  (Converted /\ NoTag(Input)) =>
    /\ Output = Tidied(Input)
    /\ NormalizeHtml(Output) = Output

\* C9: the result holds no three consecutive newlines: in the text after
\* tag stripping and entity decoding every stretch of white space that holds
\* three or more newlines, consecutive or parted by other white space, is
\* cut down to two newlines; a stretch with fewer newlines stays as it is,
\* unless it stands at the start or the end, where all white space goes.
C9_BlankLinesCollapsed ==
  Converted =>
    /\ \A k \in 1..(Len(Output) - 2) :
         ~(Output[k] = "\n" /\ Output[k + 1] = "\n" /\ Output[k + 2] = "\n")
    /\ Output = Tidied(Decoded(Input))

\* a page whose paragraphs leave four newlines in a row has been converted
C9_Witness ==
  /\ Converted
  /\ ~NoTag(Input)
  /\ \E k \in 1..Len(NewlineRuns(Decoded(Input))) : NewlineRuns(Decoded(Input))[k] >= 3
  /\ NewlineRuns(Output) = <<2>>

\* C9 as stated, for text that neither starts nor ends with white space:
\* every run of three or more consecutive newlines becomes a run of two, and
\* the runs of one or two newlines are left as they are.
C9_ShortRunsUntouched ==
  LET d    == Decoded(Input)
      runs == NewlineRuns(d)
  IN  (Converted /\ d # <<>> /\ ~IsSpace(d[1]) /\ ~IsSpace(d[Len(d)])) =>
        NewlineRuns(Output) = [k \in 1..Len(runs) |-> IF runs[k] >= 3 THEN 2 ELSE runs[k]]

\* the names of the descriptors of a tools array
NamesListed(tools) == {tools[k].name : k \in 1..Len(tools)}

\* C11: the names the ListTools handler returns are the names the CallTool
\* handler routes: every listed name has one descriptor (six in
\* src/index.js, four in src/unnamed/part_000), a call with a listed name
\* enters the handler of that name, and a call is answered with "Unknown
\* tool" exactly when its name has no descriptor.
C11_ListedIffRouted ==
  /\ pc = "listed" =>
       /\ Len(listed) = IF variant = "index.js" THEN 6 ELSE 4
       /\ Cardinality(NamesListed(listed)) = Len(listed)
  /\ (caller = "dispatch" /\ pc = name) =>
       Cardinality({k \in 1..Len(Descriptors(variant)) :
                      Descriptors(variant)[k].name = name}) = 1
  /\ pc = "done" =>
       (result = Envelope(<<"Error: ", "Unknown tool: ", name>>)
          <=> name \notin NamesListed(Descriptors(variant)))

\* the older build has listed its four tools
C11_Witness ==
  /\ pc = "listed"
  /\ variant = "part_000"
  /\ NamesListed(listed) =
       {"get_readme", "get_project_files", "get_file_content", "search_docs"}

\* the requests of this invocation to the GitHub API, and to the article
ToGithub == {k \in 1..Len(issued) : issued[k].api \in {"contents", "search"}}
ToArticle == {k \in 1..Len(issued) : issued[k].api = "article"}

\* C12: the token goes to the GitHub API only: a request to the contents or
\* the search API carries "Authorization: token <GITHUB_TOKEN>" exactly when
\* GITHUB_TOKEN is set to a non-empty value, and no Authorization header
\* otherwise; the request to the article URL carries a User-Agent header
\* and nothing else, whatever GITHUB_TOKEN is and whoever called
\* getMediumArticle.
C12_TokenOnlyToGithub ==
  /\ \A k \in ToGithub :
       /\ issued[k].headers.Accept = "application/vnd.github.v3+json"
       /\ issued[k].headers.UserAgent = "MCP-WithCustomCursor-Server"
       /\ issued[k].headers.Authorization =
            IF token \in {Undefined, ""} THEN <<>> ELSE <<"token ", token>>
  /\ \A k \in ToArticle :
       /\ issued[k].headers.Accept = Undefined
       /\ issued[k].headers.UserAgent = "MCP-WithCustomCursor-Server"
       /\ issued[k].headers.Authorization = <<>>

\* with a token set, getAllDocumentation has fetched the README with the
\* token and then the article
C12_Witness ==
  /\ name = "get_all_documentation"
  /\ token = "ghp_x"
  /\ issued # <<>>
  /\ issued[1].headers.Authorization = <<"token ", "ghp_x">>
  /\ ToArticle # {}

\* C12 as stated: a request to the GitHub API carries the Authorization
\* header if and only if GITHUB_TOKEN is set.
C12_HeaderIffTokenSet ==
  \A k \in ToGithub :
    token # Undefined <=> issued[k].headers.Authorization = <<"token ", token>>

\* ------------------------------------------------------------------------
\* Progress: every fetch settles and every continuation runs
\* ------------------------------------------------------------------------
\* the steps of the handlers: what the event loop runs once it can
HandlerStep ==
  \/ getReadme
  \/ getReadmeResume
  \/ getProjectFiles
  \/ getProjectFilesResume
  \/ getFileContent
  \/ getFileContentResume
  \/ searchDocs
  \/ searchDocsResume
  \/ getMediumArticle
  \/ getMediumArticleResume
  \/ getAllDocumentation
  \/ Collect
  \/ Reply

\* the server of one environment, against a site of short pages:
\* GITHUB_TOKEN and the length of a page steer no handler
InitLive == Start({Undefined}, ShortPages)

SpecLive ==
  /\ InitLive
  /\ [][Next]_vars
  /\ WF_vars(UpstreamSettles)
  /\ WF_vars(HandlerStep)

\* the requests of this invocation of each rank: README probes, article,
\* package.json
Ranked(r) == {k \in 1..Len(issued) : Rank(issued[k]) = r}

\* the most fetches an invocation of tool n can have issued
MostFetches(n) ==
  CASE n = "get_readme" -> 12
    [] n = "get_all_documentation" -> 14
    [] n \in {"get_project_files", "get_file_content", "search_docs",
              "get_medium_article"} -> 1
    [] OTHER -> 0

\* the fetch counts of C13 when the invocation has been answered
FetchesBounded ==
  /\ Len(issued) <= IF name \in Dispatched(variant) THEN MostFetches(name) ELSE 0
  /\ name \in Dispatched(variant) =>
       /\ name = "get_readme" =>
            /\ Len(issued) >= 1
            /\ ret.kind = "throw" => Len(issued) = 12
       /\ name \in {"get_project_files", "get_file_content", "search_docs",
                    "get_medium_article"} => Len(issued) = 1
       /\ name = "get_all_documentation" =>
            /\ Cardinality(Ranked(1)) \in 1..12
            /\ Cardinality(Ranked(2)) = 1
            /\ Cardinality(Ranked(3)) = 1
            /\ \A j, k \in 1..Len(issued) :
                 j < k => Rank(issued[j]) <= Rank(issued[k])
  /\ \A j, k \in 1..Len(issued) :
       (j < k /\ issued[j] = issued[k]) =>
          /\ Rank(issued[j]) = 1
          /\ issued[j].ref = issued[1].ref
          /\ issued[j].ref \in {"main", "master"}
          /\ k = j + (IF issued[j].ref = "main" THEN 4 ELSE 8)

\* an invocation is under way; it has been answered
InFlight == pc \notin {"idle", "done", "listed"}
Answered == pc = "done" /\ result.kind = "envelope"

\* C13: when every fetch settles, every invocation is answered with an
\* envelope, after at most 12 fetches for get_readme (12 when all attempts
\* fail), one for get_project_files, get_file_content, search_docs and
\* get_medium_article, at most 14 for get_all_documentation (1 to 12 README
\* probes, one article fetch, one package.json fetch) and none for a name
\* that is not routed; the same request is issued twice only for the pairs
\* of a branch that stands twice in the search order of the README.
C13_AnsweredAfterBoundedFetches == InFlight ~> (Answered /\ FetchesBounded)

\* get_all_documentation has been answered after 14 fetches
C13_Witness ==
  /\ pc = "done"
  /\ name = "get_all_documentation"
  /\ Len(issued) = 14
  /\ result.kind = "envelope"
====
